---- MODULE Spec2Model ----
(***************************************************************************)
(* Model of the BOM weather tracker's merge-and-retention engine:          *)
(* src/src/merger.py (merge_forecast, archive_old_records),                *)
(* src/src/file_io.py (read/merge/write of the current and archive files)  *)
(* and src/src/collector.py (collect_single_location).                     *)
(*                                                                         *)
(* Python values are modelled as follows.                                  *)
(*   Optional[T]   : <<>> is None, <<x>> is the value x.                   *)
(*   date          : a day ordinal, counted from 2023-12-31.               *)
(*   dict          : a sequence of <<key, value>> pairs in insertion       *)
(*                   order, as Python dicts keep it.                       *)
(*   date.isoformat: the triple <<year, month, day>>; Python compares the  *)
(*                   zero-padded strings character by character, which is  *)
(*                   the lexicographic order of the triples.               *)
(***************************************************************************)
EXTENDS Integers, Sequences, FiniteSets, TLC

\* ------------------------------------------------------------------ bounds

\* Dates are the day ordinals 0..MaxDate.
MaxDate == 1
\* A parsed forecast holds at most MaxDays forecast days.
MaxDays == 2

Dates == 0 .. MaxDate

\* ------------------------------------------------------------ Optional[T]

None == << >>
Some(x) == << x >>
IsNone(v) == Len(v) = 0
Get(v) == v[1]

\* Python truthiness of an Optional[str]: None and "" are falsy.
Truthy(v) == ~IsNone(v) /\ Get(v) # ""

\* ------------------------------------------------------------------ dates

\* date.isoformat() of the day with ordinal d (day 0 is 2023-12-31).
IsoFormat(d) ==
    IF d = 0 THEN << 2023, 12, 31 >> ELSE << 2024, 1, d >>

\* Python's < on two ISO date strings.
StrLess(a, b) ==
    \/ a[1] < b[1]
    \/ a[1] = b[1] /\ a[2] < b[2]
    \/ a[1] = b[1] /\ a[2] = b[2] /\ a[3] < b[3]

IntLess(a, b) == a < b

\* ------------------------------------------------------------------ dicts

Keys(d) == [i \in 1 .. Len(d) |-> d[i][1]]
KeySet(d) == {d[i][1] : i \in 1 .. Len(d)}
DictHas(d, k) == \E i \in 1 .. Len(d) : d[i][1] = k
\* d[k] for a key that is present.
DictAt(d, k) == d[CHOOSE i \in 1 .. Len(d) : d[i][1] = k][2]
\* d.get(k)
DictGet(d, k) == IF DictHas(d, k) THEN Some(DictAt(d, k)) ELSE None
\* d[k] = v : an existing key keeps its position, a new key goes last.
DictSet(d, k, v) ==
    IF DictHas(d, k)
    THEN [i \in 1 .. Len(d) |-> IF d[i][1] = k THEN << k, v >> ELSE d[i]]
    ELSE Append(d, << k, v >>)

\* dict(sorted(d.items())): the keys of a dict are unique, so the item at
\* position i of the sorted result is the one with i - 1 smaller keys.
\* For the days_ahead keys of a predictions dict (integers):
SortPredictions(d) ==
    [i \in 1 .. Len(d) |->
        d[CHOOSE j \in 1 .. Len(d) :
            Cardinality({k \in 1 .. Len(d) : IntLess(d[k][1], d[j][1])}) = i - 1]]

\* The forecasts dict left in insertion order.
SortForecasts_omitted(d) == d

\* For the ISO date keys of a forecasts dict (strings):
SortForecasts(d) ==
    [i \in 1 .. Len(d) |->
        d[CHOOSE j \in 1 .. Len(d) :
            Cardinality({k \in 1 .. Len(d) : StrLess(d[k][1], d[j][1])}) = i - 1]]

\* ---------------------------------------------------------------- records

PredictionEntry(icon_code, temp_min, temp_max, precipitation_prob, precis, forecast) ==
    [icon_code |-> icon_code, temp_min |-> temp_min, temp_max |-> temp_max,
     precipitation_prob |-> precipitation_prob, precis |-> precis,
     forecast |-> forecast]

Fields == {"icon_code", "temp_min", "temp_max", "precipitation_prob", "precis", "forecast"}
NumericFields == {"icon_code", "temp_min", "temp_max"}
TextFields == {"precipitation_prob", "precis", "forecast"}

\* The prediction values a parsed day may carry.  Every field takes None,
\* a zero or empty value, and two distinct proper values.
Entries ==
    { PredictionEntry(None, Some(0), None, None, Some(""), Some("Sunny day")),
      PredictionEntry(Some(0), Some(11), Some(28), Some(""), Some("Sunny"), None),
      PredictionEntry(Some(2), None, Some(0), Some("40%"), None, Some("")),
      PredictionEntry(Some(3), Some(12), Some(30), Some("0%"), Some("Rain"), Some("Rainy day")) }

ForecastDay(forecast_date, e) ==
    [forecast_date |-> forecast_date, icon_code |-> e.icon_code,
     temp_min |-> e.temp_min, temp_max |-> e.temp_max,
     precipitation_prob |-> e.precipitation_prob, precis |-> e.precis,
     forecast |-> e.forecast]

ForecastDays == {ForecastDay(d, e) : d \in Dates, e \in Entries}

RECURSIVE SeqsUpTo(_, _)
SeqsUpTo(S, n) ==
    IF n = 0 THEN {<< >>}
    ELSE LET shorter == SeqsUpTo(S, n - 1)
         IN shorter \cup {Append(s, x) : s \in {t \in shorter : Len(t) = n - 1}, x \in S}

\* parsed.forecasts: every list of at most MaxDays forecast days.
ForecastLists == SeqsUpTo(ForecastDays, MaxDays)

\* The documents the parser can deliver for the location: its identifying
\* fields as the feed spells them, and the state its configuration gives.
Sources ==
    { [product_id |-> "IDN10064", city_name |-> "Sydney", timezone |-> "EDT", state |-> "NSW"],
      [product_id |-> "IDV10450", city_name |-> "Melbourne", timezone |-> "EST", state |-> "VIC"] }

ParsedForecast(src, days) ==
    [product_id |-> src.product_id, city_name |-> src.city_name,
     timezone |-> src.timezone, forecasts |-> days]

ForecastRecord(forecast_date, predictions) ==
    [forecast_date |-> forecast_date, predictions |-> predictions]

LocationData(product_id, city_name, st, timezone, forecasts) ==
    [product_id |-> product_id, city_name |-> city_name, state |-> st,
     timezone |-> timezone, forecasts |-> forecasts]

\* ------------------------------------------------------------- merger.py

\* merge_prediction_entry with the text fields tested against None instead of
\* by truthiness, so that an empty string overrides.
merge_prediction_entry_strict_null(existing_prediction, new) ==
    IF IsNone(existing_prediction) THEN new
    ELSE LET old == Get(existing_prediction)
         IN PredictionEntry(
                IF ~IsNone(new.icon_code) THEN new.icon_code ELSE old.icon_code,
                IF ~IsNone(new.temp_min) THEN new.temp_min ELSE old.temp_min,
                IF ~IsNone(new.temp_max) THEN new.temp_max ELSE old.temp_max,
                IF ~IsNone(new.precipitation_prob)
                    THEN new.precipitation_prob ELSE old.precipitation_prob,
                IF ~IsNone(new.precis) THEN new.precis ELSE old.precis,
                IF ~IsNone(new.forecast) THEN new.forecast ELSE old.forecast)

\* merge_prediction_entry that stores the new entry as it is.
merge_prediction_entry_overwrite(existing_prediction, new) == new

\* merge_prediction_entry with a copy-and-paste slip in the temp_min line,
\* which falls back to the existing temp_max.
merge_prediction_entry_slip(existing_prediction, new) ==
    IF IsNone(existing_prediction) THEN new
    ELSE LET old == Get(existing_prediction)
         IN PredictionEntry(
                IF ~IsNone(new.icon_code) THEN new.icon_code ELSE old.icon_code,
                IF ~IsNone(new.temp_min) THEN new.temp_min ELSE old.temp_max,
                IF ~IsNone(new.temp_max) THEN new.temp_max ELSE old.temp_max,
                IF Truthy(new.precipitation_prob)
                    THEN new.precipitation_prob ELSE old.precipitation_prob,
                IF Truthy(new.precis) THEN new.precis ELSE old.precis,
                IF Truthy(new.forecast) THEN new.forecast ELSE old.forecast)

\* Python truthiness of an Optional[int]: None and 0 are falsy.
NonZero(v) == ~IsNone(v) /\ Get(v) # 0

\* merge_prediction_entry with the numeric fields tested by truthiness as the
\* text fields are, so that a value of 0 counts as absent.
merge_prediction_entry_falsy_zero(existing_prediction, new) ==
    IF IsNone(existing_prediction) THEN new
    ELSE LET old == Get(existing_prediction)
         IN PredictionEntry(
                IF NonZero(new.icon_code) THEN new.icon_code ELSE old.icon_code,
                IF NonZero(new.temp_min) THEN new.temp_min ELSE old.temp_min,
                IF NonZero(new.temp_max) THEN new.temp_max ELSE old.temp_max,
                IF Truthy(new.precipitation_prob)
                    THEN new.precipitation_prob ELSE old.precipitation_prob,
                IF Truthy(new.precis) THEN new.precis ELSE old.precis,
                IF Truthy(new.forecast) THEN new.forecast ELSE old.forecast)

merge_prediction_entry(existing_prediction, new) ==
    IF IsNone(existing_prediction) THEN new
    ELSE LET old == Get(existing_prediction)
         IN PredictionEntry(
                IF ~IsNone(new.icon_code) THEN new.icon_code ELSE old.icon_code,
                IF ~IsNone(new.temp_min) THEN new.temp_min ELSE old.temp_min,
                IF ~IsNone(new.temp_max) THEN new.temp_max ELSE old.temp_max,
                IF Truthy(new.precipitation_prob)
                    THEN new.precipitation_prob ELSE old.precipitation_prob,
                IF Truthy(new.precis) THEN new.precis ELSE old.precis,
                IF Truthy(new.forecast) THEN new.forecast ELSE old.forecast)

\* The day difference taken the wrong way round.
DaysAhead_reversed(forecast_date, cdate) == cdate - forecast_date

\* (forecast_day.forecast_date - collection_date).days
DaysAhead(forecast_date, cdate) == forecast_date - cdate

\* The loop body with a new ForecastRecord made for the date whether or not
\* the history holds one.
MergeDay_fresh_record(forecasts, forecast_day, cdate) ==
    LET forecast_date_str == IsoFormat(forecast_day.forecast_date)
        days_ahead == DaysAhead(forecast_day.forecast_date, cdate)
        new_prediction ==
            PredictionEntry(forecast_day.icon_code, forecast_day.temp_min,
                            forecast_day.temp_max, forecast_day.precipitation_prob,
                            forecast_day.precis, forecast_day.forecast)
    IN DictSet(forecasts, forecast_date_str,
               ForecastRecord(forecast_day.forecast_date,
                              << << days_ahead, new_prediction >> >>))

\* One pass of the loop over new_forecast.forecasts.
MergeDay(forecasts, forecast_day, cdate) ==
    LET forecast_date_str == IsoFormat(forecast_day.forecast_date)
        days_ahead == DaysAhead(forecast_day.forecast_date, cdate)
        new_prediction ==
            PredictionEntry(forecast_day.icon_code, forecast_day.temp_min,
                            forecast_day.temp_max, forecast_day.precipitation_prob,
                            forecast_day.precis, forecast_day.forecast)
        forecast_record ==
            IF DictHas(forecasts, forecast_date_str)
            THEN DictAt(forecasts, forecast_date_str)
            ELSE ForecastRecord(forecast_day.forecast_date, << >>)
        existing_prediction == DictGet(forecast_record.predictions, days_ahead)
        stored == DictSet(forecast_record.predictions, days_ahead,
                          merge_prediction_entry(existing_prediction, new_prediction))
    IN DictSet(forecasts, forecast_date_str,
               ForecastRecord(forecast_record.forecast_date, SortPredictions(stored)))

\* The loop over new_forecast.forecasts run from the last day to the first.
RECURSIVE MergeDays_reversed(_, _, _)
MergeDays_reversed(forecasts, days, cdate) ==
    IF days = << >> THEN forecasts
    ELSE MergeDay(MergeDays_reversed(forecasts, Tail(days), cdate), Head(days), cdate)

RECURSIVE MergeDays(_, _, _)
MergeDays(forecasts, days, cdate) ==
    IF days = << >> THEN forecasts
    ELSE MergeDays(MergeDay(forecasts, Head(days), cdate), Tail(days), cdate)

\* merge_forecast with the identifying fields taken from the parsed forecast
\* and the state argument whether or not a history exists.
merge_forecast_relabel(existing_data, parsed, cdate, st) ==
    LET start == IF IsNone(existing_data)
                 THEN << >>
                 ELSE Get(existing_data).forecasts
    IN LocationData(parsed.product_id, parsed.city_name, st, parsed.timezone,
                    SortForecasts(MergeDays(start, parsed.forecasts, cdate)))

merge_forecast(existing_data, parsed, cdate, st) ==
    LET start == IF IsNone(existing_data)
                 THEN LocationData(parsed.product_id, parsed.city_name, st,
                                   parsed.timezone, << >>)
                 ELSE Get(existing_data)
    IN [start EXCEPT
            !.forecasts = SortForecasts(MergeDays(start.forecasts, parsed.forecasts,
                                                  cdate))]

\* archive_old_records with the boundary date itself sent to the archive.
archive_old_records_exclusive(data, ref) ==
    LET current_forecasts ==
            SelectSeq(data.forecasts, LAMBDA item : item[2].forecast_date > ref)
        archived_forecasts ==
            SelectSeq(data.forecasts, LAMBDA item : ~(item[2].forecast_date > ref))
    IN [current |-> [data EXCEPT !.forecasts = current_forecasts],
        archived |-> IF archived_forecasts # << >>
                     THEN Some([data EXCEPT !.forecasts = archived_forecasts])
                     ELSE None]

\* The superseded retention policy: records before the boundary are removed.
archive_old_records_delete(data, ref) ==
    [current |-> [data EXCEPT !.forecasts =
                    SelectSeq(data.forecasts,
                              LAMBDA item : item[2].forecast_date >= ref)],
     archived |-> None]

\* archive_old_records(data, archive_dir, reference_date): the pair
\* (current_data, archived_data).  Both dicts are filled in the order of
\* data.forecasts.
archive_old_records(data, ref) ==
    LET current_forecasts ==
            SelectSeq(data.forecasts, LAMBDA item : item[2].forecast_date >= ref)
        archived_forecasts ==
            SelectSeq(data.forecasts, LAMBDA item : ~(item[2].forecast_date >= ref))
    IN [current |-> [data EXCEPT !.forecasts = current_forecasts],
        archived |-> IF archived_forecasts # << >>
                     THEN Some(LocationData(data.product_id, data.city_name,
                                            data.state, data.timezone,
                                            archived_forecasts))
                     ELSE None]

\* ------------------------------------------------------------ file_io.py

\* existing_record.predictions[days_ahead] = prediction, for every item of
\* the new record's predictions.
\* SetPredictions with the field-preservation merge of merge_forecast applied
\* to a days-ahead key both records hold.
RECURSIVE SetPredictions_preserving(_, _)
SetPredictions_preserving(predictions, items) ==
    IF items = << >> THEN predictions
    ELSE SetPredictions_preserving(
             DictSet(predictions, Head(items)[1],
                     merge_prediction_entry(DictGet(predictions, Head(items)[1]),
                                            Head(items)[2])),
             Tail(items))

RECURSIVE SetPredictions(_, _)
SetPredictions(predictions, items) ==
    IF items = << >> THEN predictions
    ELSE SetPredictions(DictSet(predictions, Head(items)[1], Head(items)[2]),
                        Tail(items))

\* The loop with a record of the new archive replacing the existing record
\* of the same date.
MergeArchiveRecord_replace(merged_forecasts, forecast_date_str, forecast_record) ==
    DictSet(merged_forecasts, forecast_date_str, forecast_record)

\* One pass of the loop over new_archive.forecasts.
MergeArchiveRecord(merged_forecasts, forecast_date_str, forecast_record) ==
    IF DictHas(merged_forecasts, forecast_date_str)
    THEN LET existing_record == DictAt(merged_forecasts, forecast_date_str)
         IN DictSet(merged_forecasts, forecast_date_str,
                    ForecastRecord(existing_record.forecast_date,
                        SortPredictions(SetPredictions(existing_record.predictions,
                                                       forecast_record.predictions))))
    ELSE DictSet(merged_forecasts, forecast_date_str, forecast_record)

RECURSIVE MergeArchiveRecords(_, _)
MergeArchiveRecords(merged_forecasts, items) ==
    IF items = << >> THEN merged_forecasts
    ELSE MergeArchiveRecords(
             MergeArchiveRecord(merged_forecasts, Head(items)[1], Head(items)[2]),
             Tail(items))

merge_archive_data(existing_arch, new_arch) ==
    IF IsNone(existing_arch) THEN new_arch
    ELSE [Get(existing_arch) EXCEPT
            !.forecasts = SortForecasts(
                MergeArchiveRecords(Get(existing_arch).forecasts, new_arch.forecasts))]

\* --------------------------------------------------------------- state

\* These variables hold the arguments of a call as they were when it was made
\* and what it returned.  Python updates the existing history in place and
\* returns it; the values before and after are kept apart here.
VARIABLES
    op,               \* the operation applied last
    existing,         \* merge_forecast: the existing argument
    new_forecast,     \* merge_forecast: the new_forecast argument
    collection_date,  \* merge_forecast: the collection_date argument
    state,            \* merge_forecast: the state argument
    merged_data,      \* merge_forecast: the returned LocationData
    reference_date,   \* archive_old_records: the reference_date argument
    current_data,     \* archive_old_records: the first component returned
    archived_data,    \* archive_old_records: the second component returned
    existing_archive, \* merge_archive_data: the existing_archive argument
    merged_archive,   \* merge_archive_data: the returned LocationData
    today,            \* date.today()
    current_file,     \* the location's current file: None while it does not exist
    archive_file,     \* the location's archive file: None while it does not exist
    current_file_before, \* the current file as the run in progress found it
    result,           \* what collect_single_location returned last
    runs,             \* the calls of collect_single_location made so far
    io_log,           \* the fetch, parse and file operations of the call of
                      \* collect_single_location in progress, with their outcomes
    config_file,      \* collect_forecasts: the configuration file
    city_filter,      \* collect_forecasts: the city_filter argument
    locations,        \* collect_forecasts: the locations selected
    index,            \* collect_forecasts: the loop index i
    total,            \* CollectionResult.total
    successes,        \* CollectionResult.successes
    failures,         \* CollectionResult.failures
    errors,           \* CollectionResult.errors
    processed,        \* the locations handed to collect_single_location, in order
    exit_code,        \* what main returned: None while it has not
    max_retries,      \* fetch_forecast_xml: the max_retries argument
    initial_delay,    \* fetch_forecast_xml: the initial_delay argument
    backoff_multiplier, \* fetch_forecast_xml: the backoff_multiplier argument
    attempt,          \* fetch_forecast_xml: the loop variable
    current_delay,    \* fetch_forecast_xml: the delay of the next wait
    attempts,         \* the outcomes of the download attempts made, in order
    sleeps,           \* the arguments of the calls of time.sleep, in order
    xml_content,      \* what fetch_forecast_xml returned: None for None
    heap,             \* the objects of a split and an archive merge: the
                      \* ForecastRecord objects and the forecasts dicts that
                      \* refer to them
    heap_before       \* the objects as they were when the last call was made

mergeVars == << existing, new_forecast, collection_date, state, merged_data >>
archiveVars == << reference_date, current_data, archived_data, existing_archive,
                 merged_archive >>
fileVars == << current_file, archive_file >>
resultVars == << total, successes, failures, errors >>
loopVars == << config_file, city_filter, locations, index, resultVars, processed,
              exit_code >>
fetchVars == << max_retries, initial_delay, backoff_multiplier, attempt,
               current_delay, attempts, sleeps, xml_content >>
heapVars == << heap, heap_before >>
outerVars == << loopVars, fetchVars, heapVars >>
runVars == << today, fileVars, current_file_before, result, runs, io_log,
             outerVars >>
vars == << op, mergeVars, archiveVars, runVars >>

NoForecast == ParsedForecast(CHOOSE s \in Sources : s.state = "NSW", << >>)

\* collect_forecasts not called: the counters of a fresh CollectionResult.
NoCollection ==
    /\ config_file = None
    /\ city_filter = None
    /\ locations = << >>
    /\ index = 0
    /\ total = 0
    /\ successes = 0
    /\ failures = 0
    /\ errors = << >>
    /\ processed = << >>
    /\ exit_code = None

\* fetch_forecast_xml not called.
NoFetch ==
    /\ max_retries = 0
    /\ initial_delay = 0
    /\ backoff_multiplier = 0
    /\ attempt = 0
    /\ current_delay = 0
    /\ attempts = << >>
    /\ sleeps = << >>
    /\ xml_content = None

\* No object allocated.
EmptyHeap ==
    [records |-> << >>, data |-> << >>, archived |-> None, existing |-> None,
     returned |-> None]

NoHeap ==
    /\ heap = EmptyHeap
    /\ heap_before = EmptyHeap

\* No run made and no file written yet.
NoRun ==
    /\ today = 0
    /\ current_file = None
    /\ archive_file = None
    /\ current_file_before = None
    /\ result = None
    /\ runs = 0
    /\ io_log = << >>
    /\ NoCollection
    /\ NoFetch
    /\ NoHeap

\* ------------------------------------------------ merge_forecast, called

\* The histories merge_forecast may be handed: none, or the history that a
\* first collection of one forecast day, made on day 0, has left.
ExistingHistories ==
    {None} \cup
    {Some(merge_forecast(None, ParsedForecast(src, << day >>), 0, src.state)) :
        src \in {s \in Sources : s.state = "VIC"}, day \in ForecastDays}

InitMerge ==
    /\ op = "init"
    /\ existing \in ExistingHistories
    /\ new_forecast = NoForecast
    /\ collection_date = 0
    /\ state = "NSW"
    /\ merged_data = None
    /\ reference_date = 0
    /\ current_data = None
    /\ archived_data = None
    /\ existing_archive = None
    /\ merged_archive = None
    /\ NoRun

\* merge_forecast(existing, new_forecast, collection_date, state)
MergeCall(src, days, cdate) ==
    /\ op = "init"
    /\ op' = "merge_forecast"
    /\ new_forecast' = ParsedForecast(src, days)
    /\ collection_date' = cdate
    /\ state' = src.state
    /\ merged_data' = Some(merge_forecast(existing, ParsedForecast(src, days),
                                          cdate, src.state))
    /\ UNCHANGED << existing, archiveVars, runVars >>

\* The same parsed forecast merged again, with the same collection date,
\* into the history the first merge returned.
ReMerge ==
    /\ op = "merge_forecast"
    /\ op' = "remerge"
    /\ existing' = merged_data
    /\ merged_data' = Some(merge_forecast(merged_data, new_forecast,
                                          collection_date, state))
    /\ UNCHANGED << new_forecast, collection_date, state, archiveVars, runVars >>

NextMerge ==
    \/ /\ op = "init"
       /\ \E src \in Sources, days \in ForecastLists, cdate \in Dates :
              MergeCall(src, days, cdate)
    \/ ReMerge

SpecMerge == InitMerge /\ [][NextMerge]_vars

\* One call of merge_forecast and no more.
NextMergeCall ==
    /\ op = "init"
    /\ \E src \in Sources, days \in ForecastLists, cdate \in Dates :
           MergeCall(src, days, cdate)

SpecMergeCall == InitMerge /\ [][NextMergeCall]_vars

\* ------------------------- merge, split and archive merge of one collection

\* The two prediction values the archive specification collects.
ArchiveEntries ==
    { e \in Entries : ~IsNone(e.forecast) /\ ~IsNone(e.temp_min) }

ArchiveSource == CHOOSE s \in Sources : s.state = "NSW"

ArchiveDays == {ForecastDay(d, e) : d \in Dates, e \in ArchiveEntries}

ArchiveLists == SeqsUpTo(ArchiveDays, MaxDays)

\* The histories and the archives on hand: none, or what the collection of
\* one forecast day, made on day 0, has left.
ArchiveHistories ==
    {None} \cup
    {Some(merge_forecast(None, ParsedForecast(ArchiveSource, << day >>), 0,
                         ArchiveSource.state)) : day \in ArchiveDays}

\* reference_date ranges over the dates and the day after the last.
ReferenceDates == 0 .. MaxDate + 1

InitArchive ==
    /\ op = "init"
    /\ existing \in ArchiveHistories
    /\ new_forecast = NoForecast
    /\ collection_date = 0
    /\ state = "NSW"
    /\ merged_data = None
    /\ reference_date = 0
    /\ current_data = None
    /\ archived_data = None
    /\ existing_archive = None
    /\ merged_archive = None
    /\ NoRun

\* archive_old_records(merged_data, archive_dir, reference_date)
ArchiveOldRecords(ref) ==
    /\ op = "merge_forecast"
    /\ op' = "archive_old_records"
    /\ reference_date' = ref
    /\ current_data' = Some(archive_old_records(Get(merged_data), ref).current)
    /\ archived_data' = archive_old_records(Get(merged_data), ref).archived
    /\ UNCHANGED << mergeVars, existing_archive, merged_archive, runVars >>

\* merge_archive_data(existing_archive, archived_data), as write_archive_file
\* calls it when the split has archived something.
MergeArchiveData(existing_arch) ==
    /\ op = "archive_old_records"
    /\ ~IsNone(archived_data)
    /\ op' = "merge_archive_data"
    /\ existing_archive' = existing_arch
    /\ merged_archive' = Some(merge_archive_data(existing_arch, Get(archived_data)))
    /\ UNCHANGED << mergeVars, reference_date, current_data, archived_data,
                    runVars >>

\* merge_forecast(merged_data, parsed, collection_date, state) with a parsed
\* forecast of no day, from either feed, on the history a merge returned.
MergeEmpty(src) ==
    /\ op = "merge_forecast"
    /\ op' = "merge_empty"
    /\ existing' = merged_data
    /\ new_forecast' = ParsedForecast(src, << >>)
    /\ state' = src.state
    /\ merged_data' = Some(merge_forecast(merged_data, ParsedForecast(src, << >>),
                                          collection_date, src.state))
    /\ UNCHANGED << collection_date, archiveVars, runVars >>

\* The archives write_archive_file may find: those above, and the archive of
\* the last date collected on day 0 and again on its own day, which holds
\* two predictions of that date.
ExistingArchives ==
    ArchiveHistories \cup
    {Some(merge_forecast(
              Some(merge_forecast(None,
                       ParsedForecast(ArchiveSource, << ForecastDay(MaxDate, e) >>),
                       0, ArchiveSource.state)),
              ParsedForecast(ArchiveSource, << ForecastDay(MaxDate, e) >>),
              MaxDate, ArchiveSource.state)) : e \in ArchiveEntries}

NextArchive ==
    \/ /\ op = "init"
       /\ \E days \in ArchiveLists, cdate \in Dates :
              MergeCall(ArchiveSource, days, cdate)
    \/ \E src \in Sources : MergeEmpty(src)
    \/ \E ref \in ReferenceDates : ArchiveOldRecords(ref)
    \/ \E existing_arch \in ExistingArchives : MergeArchiveData(existing_arch)

SpecArchive == InitArchive /\ [][NextArchive]_vars

\* ------------------------------- split and archive merge, on the objects

\* archive_old_records and merge_archive_data hand ForecastRecord objects
\* from one dict to another and update some of them in place.  Here a record
\* is an object heap.records[id], and a forecasts dict is a sequence of
\* << key, id >> pairs:
\*   heap.data      the forecasts of the LocationData handed to
\*                  archive_old_records, which is the current data it returns
\*   heap.archived  the forecasts of the archived data it returns, or None
\*   heap.existing  the forecasts of the existing archive, or None
\*   heap.returned  which object merge_archive_data returned

\* The objects of a LocationData a merge has returned: record i of its
\* forecasts is object i.
HeapOf(data) ==
    [records |-> [i \in 1 .. Len(data.forecasts) |-> data.forecasts[i][2]],
     data |-> [i \in 1 .. Len(data.forecasts) |-> << data.forecasts[i][1], i >>],
     archived |-> None, existing |-> None, returned |-> None]

\* The objects a forecasts dict refers to.
Ids(refs) == {refs[i][2] : i \in 1 .. Len(refs)}

\* A forecasts dict with the records in the place of the references.
Deref(h, refs) ==
    [i \in 1 .. Len(refs) |-> << refs[i][1], h.records[refs[i][2]] >>]

\* archive_old_records with the record of the boundary date put in both
\* dicts.
ArchiveOldRecordsInPlace_shared(h, ref) ==
    LET current_forecasts ==
            SelectSeq(h.data, LAMBDA item : h.records[item[2]].forecast_date >= ref)
        archived_forecasts ==
            SelectSeq(h.data, LAMBDA item : h.records[item[2]].forecast_date <= ref)
    IN [h EXCEPT !.data = current_forecasts,
                 !.archived = IF archived_forecasts # << >>
                              THEN Some(archived_forecasts) ELSE None]

\* archive_old_records: every record object of data.forecasts is put in
\* current_forecasts or in archived_forecasts, data.forecasts is set to the
\* first, and a new LocationData is made of the second unless it is empty.
ArchiveOldRecordsInPlace(h, ref) ==
    LET current_forecasts ==
            SelectSeq(h.data, LAMBDA item : h.records[item[2]].forecast_date >= ref)
        archived_forecasts ==
            SelectSeq(h.data, LAMBDA item : ~(h.records[item[2]].forecast_date >= ref))
    IN [h EXCEPT !.data = current_forecasts,
                 !.archived = IF archived_forecasts # << >>
                              THEN Some(archived_forecasts) ELSE None]

\* read_location_file on the archive path: deserialize_location_data builds
\* new objects for the records of the file.
ReadArchiveObjects(h, existing_arch) ==
    IF IsNone(existing_arch) THEN [h EXCEPT !.existing = None]
    ELSE LET f == Get(existing_arch).forecasts
         IN [h EXCEPT
                !.records = h.records \o [i \in 1 .. Len(f) |-> f[i][2]],
                !.existing = Some([i \in 1 .. Len(f) |->
                                      << f[i][1], Len(h.records) + i >>])]

\* The loop body with the predictions gathered in the record of the new
\* archive, which then takes the place of the existing record.
MergeArchiveRecordInPlace_into_new(st, forecast_date_str, forecast_record) ==
    IF DictHas(st.merged_forecasts, forecast_date_str)
    THEN LET existing_record == DictAt(st.merged_forecasts, forecast_date_str)
         IN [records |->
                [st.records EXCEPT ![forecast_record].predictions =
                    SortPredictions(
                        SetPredictions(st.records[existing_record].predictions, @))],
             merged_forecasts |->
                DictSet(st.merged_forecasts, forecast_date_str, forecast_record)]
    ELSE [st EXCEPT !.merged_forecasts = DictSet(@, forecast_date_str, forecast_record)]

\* One pass of the loop of merge_archive_data over new_archive.forecasts:
\* the existing record object of the date is updated in place, or the record
\* object of the new archive is put in merged_forecasts.
MergeArchiveRecordInPlace(st, forecast_date_str, forecast_record) ==
    IF DictHas(st.merged_forecasts, forecast_date_str)
    THEN LET existing_record == DictAt(st.merged_forecasts, forecast_date_str)
         IN [st EXCEPT !.records[existing_record].predictions =
                SortPredictions(
                    SetPredictions(@, st.records[forecast_record].predictions))]
    ELSE [st EXCEPT !.merged_forecasts = DictSet(@, forecast_date_str, forecast_record)]

RECURSIVE MergeArchiveRecordsInPlace(_, _)
MergeArchiveRecordsInPlace(st, items) ==
    IF items = << >> THEN st
    ELSE MergeArchiveRecordsInPlace(
             MergeArchiveRecordInPlace(st, Head(items)[1], Head(items)[2]),
             Tail(items))

\* merge_archive_data(existing_archive, new_archive): new_archive itself is
\* returned when there is no existing archive; otherwise the loop runs on a
\* shallow copy of existing_archive.forecasts, the sorted result is
\* assigned to existing_archive.forecasts and existing_archive is returned.
MergeArchiveDataInPlace(h) ==
    IF IsNone(h.existing) THEN [h EXCEPT !.returned = Some("new_archive")]
    ELSE LET done == MergeArchiveRecordsInPlace(
                         [records |-> h.records,
                          merged_forecasts |-> Get(h.existing)],
                         Get(h.archived))
         IN [h EXCEPT !.records = done.records,
                      !.existing = Some(SortForecasts(done.merged_forecasts)),
                      !.returned = Some("existing_archive")]

\* The histories a merge may have returned when the split is called.
MergedHistories ==
    {merge_forecast(e, ParsedForecast(ArchiveSource, days), cdate,
                    ArchiveSource.state) :
        e \in ArchiveHistories, days \in ArchiveLists, cdate \in Dates}

InitHeap ==
    /\ op = "init"
    /\ existing = None
    /\ new_forecast = NoForecast
    /\ collection_date = 0
    /\ state = "NSW"
    /\ merged_data = None
    /\ reference_date = 0
    /\ current_data = None
    /\ archived_data = None
    /\ existing_archive = None
    /\ merged_archive = None
    /\ today = 0
    /\ current_file = None
    /\ archive_file = None
    /\ current_file_before = None
    /\ result = None
    /\ runs = 0
    /\ io_log = << >>
    /\ NoCollection
    /\ NoFetch
    /\ heap \in {HeapOf(data) : data \in MergedHistories}
    /\ heap_before = heap

heapFrame == << mergeVars, current_data, archived_data, merged_archive, today,
               fileVars, current_file_before, result, runs, io_log, loopVars,
               fetchVars >>

\* archive_old_records(merged_data, archive_dir, reference_date)
SplitObjects(ref) ==
    /\ op = "init"
    /\ op' = "archive_old_records"
    /\ reference_date' = ref
    /\ heap_before' = heap
    /\ heap' = ArchiveOldRecordsInPlace(heap, ref)
    /\ UNCHANGED << heapFrame, existing_archive >>

\* write_archive_file up to its write: the archive file is read and
\* merge_archive_data is called with what was read and the archived data.
MergeArchiveObjects(existing_arch) ==
    /\ op = "archive_old_records"
    /\ ~IsNone(heap.archived)
    /\ op' = "merge_archive_data"
    /\ existing_archive' = existing_arch
    /\ heap_before' = ReadArchiveObjects(heap, existing_arch)
    /\ heap' = MergeArchiveDataInPlace(ReadArchiveObjects(heap, existing_arch))
    /\ UNCHANGED << heapFrame, reference_date >>

NextHeap ==
    \/ \E ref \in ReferenceDates : SplitObjects(ref)
    \/ \E existing_arch \in ExistingArchives : MergeArchiveObjects(existing_arch)

SpecHeap == InitHeap /\ [][NextHeap]_vars

\* ------------------------------------------------- the files of a location

\* str(days_ahead): the sign and the magnitude of the decimal numeral.
DaysAheadStr(n) == IF n < 0 THEN << "-", 0 - n >> ELSE << "", n >>

\* int(key) of a days-ahead key read from a file.
DaysAheadInt(s) == IF s[1] = "-" THEN 0 - s[2] ELSE s[2]

\* date.fromisoformat(key)
FromIsoFormat(key) == IF key[1] = 2023 THEN 0 ELSE key[3]

\* The JSON document of a LocationData: the identifying fields and the
\* forecasts mapping, ISO date string -> days-ahead as a string -> prediction
\* object.  A record's date is carried by its key only.
serialize_location_data(data) ==
    [product_id |-> data.product_id, city_name |-> data.city_name,
     state |-> data.state, timezone |-> data.timezone,
     forecasts |->
        [i \in 1 .. Len(data.forecasts) |->
            << data.forecasts[i][1],
               [j \in 1 .. Len(data.forecasts[i][2].predictions) |->
                   << DaysAheadStr(data.forecasts[i][2].predictions[j][1]),
                      data.forecasts[i][2].predictions[j][2] >>] >>]]

\* The LocationData a JSON document encodes.
deserialize_location_data(json_content) ==
    LocationData(json_content.product_id, json_content.city_name,
                 json_content.state, json_content.timezone,
        [i \in 1 .. Len(json_content.forecasts) |->
            << json_content.forecasts[i][1],
               ForecastRecord(FromIsoFormat(json_content.forecasts[i][1]),
                   [j \in 1 .. Len(json_content.forecasts[i][2]) |->
                       << DaysAheadInt(json_content.forecasts[i][2][j][1]),
                          json_content.forecasts[i][2][j][2] >>]) >>])

\* read_location_file(file_path): None when the file does not exist, and None
\* as well when reading or decoding it raises (readable = FALSE); the
\* exception is logged and swallowed.
read_location_file(file, readable) ==
    IF IsNone(file) THEN None
    ELSE IF readable THEN Some(deserialize_location_data(Get(file)))
    ELSE None

\* How a read of a file ended: the file is absent, was read, or reading or
\* decoding it raised and the error was logged.
ReadOutcome(file, readable) ==
    IF IsNone(file) THEN "absent" ELSE IF readable THEN "ok" ELSE "error"

\* write_location_file(file_path, data): the file after the call.  When the
\* call raises (writable = FALSE) the file is as it was.
write_location_file(file, data, writable) ==
    IF writable THEN Some(serialize_location_data(data)) ELSE file

\* write_archive_file(file_path, data): read, merge, write.
write_archive_file(file, data, readable, writable) ==
    LET existing_arch == read_location_file(file, readable)
        merged == merge_archive_data(existing_arch, data)
    IN [existing_archive |-> existing_arch,
        merged_archive |-> merged,
        file |-> write_location_file(file, merged, writable)]

\* ----------------------------------------------- collect_single_location

\* The calls of collect_single_location a behaviour makes at most.
MaxRuns == 2

\* collect_forecasts takes date.today() as the collection date and calls
\* collect_single_location; the locals of the call start out unset.
StartRun ==
    /\ op \in {"init", "returned", "raised"}
    /\ runs < MaxRuns
    /\ op' = "collect_single_location"
    /\ runs' = runs + 1
    /\ collection_date' = today
    /\ state' = ArchiveSource.state
    /\ existing' = None
    /\ new_forecast' = NoForecast
    /\ merged_data' = None
    /\ reference_date' = 0
    /\ current_data' = None
    /\ archived_data' = None
    /\ existing_archive' = None
    /\ merged_archive' = None
    /\ current_file_before' = current_file
    /\ result' = None
    /\ io_log' = << >>
    /\ UNCHANGED << today, fileVars, outerVars >>

\* Fetch without the test of xml_content against None: the call goes on to
\* the parse whatever the fetch returned.
Fetch_unchecked(fetched) ==
    /\ op = "collect_single_location"
    /\ op' = "fetch_forecast_xml"
    /\ result' = result
    /\ io_log' = Append(io_log, << "fetch", IF fetched THEN "ok" ELSE "failed" >>)
    /\ UNCHANGED << mergeVars, archiveVars, today, fileVars,
                    current_file_before, runs, outerVars >>

\* Step 1: fetch_forecast_xml returns the document, or None and the call
\* returns an error message.
Fetch(fetched) ==
    /\ op = "collect_single_location"
    /\ IF fetched
       THEN op' = "fetch_forecast_xml" /\ result' = result
       ELSE op' = "returned" /\ result' = Some("Failed to fetch XML")
    /\ io_log' = Append(io_log, << "fetch", IF fetched THEN "ok" ELSE "failed" >>)
    /\ UNCHANGED << mergeVars, archiveVars, today, fileVars,
                    current_file_before, runs, outerVars >>

\* Step 2: parse_forecast_xml returns the parsed forecast, or None and the
\* call returns an error message.
Parse(parsed_forecast) ==
    /\ op = "fetch_forecast_xml"
    /\ IF IsNone(parsed_forecast)
       THEN op' = "returned" /\ result' = Some("Failed to parse XML")
            /\ new_forecast' = new_forecast
       ELSE op' = "parse_forecast_xml" /\ result' = result
            /\ new_forecast' = Get(parsed_forecast)
    /\ io_log' = Append(io_log, << "parse", IF IsNone(parsed_forecast)
                                            THEN "failed" ELSE "ok" >>)
    /\ UNCHANGED << existing, collection_date, state, merged_data, archiveVars,
                    today, fileVars, current_file_before, runs, outerVars >>

\* Step 3: existing_data = read_location_file(file_path)
ReadExisting(readable) ==
    /\ op = "parse_forecast_xml"
    /\ op' = "read_location_file"
    /\ existing' = read_location_file(current_file, readable)
    /\ io_log' = Append(io_log, << "read_current", ReadOutcome(current_file, readable) >>)
    /\ UNCHANGED << new_forecast, collection_date, state, merged_data,
                    archiveVars, today, fileVars, current_file_before, result,
                    runs, outerVars >>

\* Step 3, when file_path.exists() raises: the stat of the path fails with an
\* error other than "no such file" (permission denied, name too long).  The
\* call is outside the try of read_location_file, and neither
\* collect_single_location nor collect_forecasts catches the exception.
ReadRaises ==
    /\ op = "parse_forecast_xml"
    /\ op' = "raised"
    /\ io_log' = Append(io_log, << "read_current", "raised" >>)
    /\ UNCHANGED << mergeVars, archiveVars, today, fileVars,
                    current_file_before, result, runs, outerVars >>

\* Step 4: merged_data = merge_forecast(existing_data, parsed_forecast,
\* collection_date, state)
Merge ==
    /\ op = "read_location_file"
    /\ op' = "merge_forecast"
    /\ merged_data' = Some(merge_forecast(existing, new_forecast,
                                          collection_date, state))
    /\ UNCHANGED << existing, new_forecast, collection_date, state,
                    archiveVars, runVars >>

\* Step 5: archive_old_records(merged_data, data_dir).  No reference date is
\* passed, so the split is made against date.today().
Split == ArchiveOldRecords(today)

\* WriteCurrent with a failed write only logged, as step 7 does.
WriteCurrent_swallowed(writable) ==
    /\ op = "archive_old_records"
    /\ current_file' = write_location_file(current_file, Get(current_data), writable)
    /\ IF ~writable \/ IsNone(archived_data)
       THEN op' = "returned" /\ result' = None
       ELSE op' = "write_location_file" /\ result' = result
    /\ io_log' = Append(io_log, << "write_current", IF writable THEN "ok" ELSE "error" >>)
    /\ UNCHANGED << mergeVars, archiveVars, today, archive_file,
                    current_file_before, runs, outerVars >>

\* WriteCurrent with step 7 reached after a failed write as well.
WriteCurrent_then_archive(writable) ==
    /\ op = "archive_old_records"
    /\ current_file' = write_location_file(current_file, Get(current_data), writable)
    /\ IF IsNone(archived_data)
       THEN op' = "returned"
            /\ result' = IF writable THEN None ELSE Some("Failed to write file")
       ELSE op' = "write_location_file" /\ result' = result
    /\ io_log' = Append(io_log, << "write_current", IF writable THEN "ok" ELSE "error" >>)
    /\ UNCHANGED << mergeVars, archiveVars, today, archive_file,
                    current_file_before, runs, outerVars >>

\* Step 6: write_location_file(file_path, current_data).  When it raises the
\* call returns an error message; when nothing was archived step 7 is
\* skipped and the call returns None.
WriteCurrent(writable) ==
    /\ op = "archive_old_records"
    /\ current_file' = write_location_file(current_file, Get(current_data), writable)
    /\ IF ~writable
       THEN op' = "returned" /\ result' = Some("Failed to write file")
       ELSE IF IsNone(archived_data)
       THEN op' = "returned" /\ result' = None
       ELSE op' = "write_location_file" /\ result' = result
    /\ io_log' = Append(io_log, << "write_current", IF writable THEN "ok" ELSE "error" >>)
    /\ UNCHANGED << mergeVars, archiveVars, today, archive_file,
                    current_file_before, runs, outerVars >>

\* WriteArchive with a failed write returned as an error message, as step 6
\* does.
WriteArchive_fatal(readable, writable) ==
    /\ op = "write_location_file"
    /\ op' = "returned"
    /\ LET written == write_archive_file(archive_file, Get(archived_data),
                                         readable, writable)
       IN /\ existing_archive' = written.existing_archive
          /\ merged_archive' = Some(written.merged_archive)
          /\ archive_file' = written.file
    /\ result' = IF writable THEN None ELSE Some("Failed to write archive file")
    /\ io_log' = io_log \o
          << << "read_archive", ReadOutcome(archive_file, readable) >>,
             << "write_archive", IF writable THEN "ok" ELSE "error" >> >>
    /\ UNCHANGED << mergeVars, reference_date, current_data, archived_data,
                    today, current_file, current_file_before, runs, outerVars >>

\* Step 7: write_archive_file(archive_file_path, archived_data).  An
\* exception is logged as a warning and the call returns None all the same.
WriteArchive(readable, writable) ==
    /\ op = "write_location_file"
    /\ op' = "returned"
    /\ LET written == write_archive_file(archive_file, Get(archived_data),
                                         readable, writable)
       IN /\ existing_archive' = written.existing_archive
          /\ merged_archive' = Some(written.merged_archive)
          /\ archive_file' = written.file
    /\ result' = None
    /\ io_log' = io_log \o
          << << "read_archive", ReadOutcome(archive_file, readable) >>,
             << "write_archive", IF writable THEN "ok" ELSE "error" >> >>
    /\ UNCHANGED << mergeVars, reference_date, current_data, archived_data,
                    today, current_file, current_file_before, runs, outerVars >>

\* Midnight passes: between two runs, or within a run after the collection
\* date was taken and before the split asks for date.today().
Tick ==
    /\ op \in {"init", "returned", "raised", "merge_forecast"}
    /\ today <= MaxDate
    /\ today' = today + 1
    /\ UNCHANGED << op, mergeVars, archiveVars, fileVars, current_file_before,
                    result, runs, io_log, outerVars >>

\* No history, no file, no run.
Init ==
    /\ op = "init"
    /\ existing = None
    /\ new_forecast = NoForecast
    /\ collection_date = 0
    /\ state = "NSW"
    /\ merged_data = None
    /\ reference_date = 0
    /\ current_data = None
    /\ archived_data = None
    /\ existing_archive = None
    /\ merged_archive = None
    /\ NoRun

Next ==
    \/ StartRun
    \/ \E fetched \in BOOLEAN : Fetch(fetched)
    \/ /\ op = "fetch_forecast_xml"
       /\ \E parsed_forecast \in
                {None} \cup {Some(ParsedForecast(ArchiveSource, days)) :
                                days \in ArchiveLists} :
              Parse(parsed_forecast)
    \/ \E readable \in BOOLEAN : ReadExisting(readable)
    \/ ReadRaises
    \/ Merge
    \/ Split
    \/ \E writable \in BOOLEAN : WriteCurrent(writable)
    \/ \E readable \in BOOLEAN, writable \in BOOLEAN : WriteArchive(readable, writable)
    \/ Tick

Spec == Init /\ [][Next]_vars

\* --------------------------------------------------------------- config.py

VALID_STATES == {"NSW", "VIC", "QLD", "SA", "WA", "TAS", "NT", "ACT"}

\* str.strip(), str.upper() and str.lower() on the strings of the model.
Strip(str) == IF str = " " THEN "" ELSE str
Upper(str) == IF str = "vic" THEN "VIC" ELSE str
Lower(str) ==
    CASE str \in {"Sydney", "SYDNEY"} -> "sydney"
      [] str = "Melbourne" -> "melbourne"
      [] str = "Perth" -> "perth"
      [] OTHER -> str

LocationConfig(product_id, city_name, st) ==
    [product_id |-> product_id, city_name |-> city_name, state |-> st]

\* An entry of the "locations" array: a JSON object with the three fields, or
\* a value that is no object.
ConfigEntry(product_id, city_name, st) ==
    [type |-> "dict", product_id |-> product_id, city_name |-> city_name,
     state |-> st]

NotADict == [type |-> "str"]

\* validate_config_entry(entry): None for an entry with a blank field or a
\* state that is no state abbreviation.
validate_config_entry(entry) ==
    IF Strip(entry.product_id) = "" THEN None
    ELSE IF Strip(entry.city_name) = "" THEN None
    ELSE IF Strip(entry.state) = "" THEN None
    ELSE IF Upper(Strip(entry.state)) \notin VALID_STATES THEN None
    ELSE Some(LocationConfig(Strip(entry.product_id), Strip(entry.city_name),
                             Upper(Strip(entry.state))))

RECURSIVE ValidConfigs(_)
ValidConfigs(locations_data) ==
    IF locations_data = << >> THEN << >>
    ELSE LET entry == Head(locations_data)
             rest == ValidConfigs(Tail(locations_data))
         IN IF entry.type # "dict" THEN rest
            ELSE IF IsNone(validate_config_entry(entry)) THEN rest
            ELSE << Get(validate_config_entry(entry)) >> \o rest

\* load_config with text that is no JSON taken for an empty configuration.
load_config_lenient(file) ==
    IF IsNone(file) THEN [raises |-> "FileNotFoundError", value |-> << >>]
    ELSE IF Get(file).json = "invalid" THEN [raises |-> "", value |-> << >>]
    ELSE IF Get(file).locations.type # "list"
    THEN [raises |-> "", value |-> << >>]
    ELSE [raises |-> "", value |-> ValidConfigs(Get(file).locations.items)]

\* load_config(config_path): the exception it raises, if any, and the list
\* it returns.  The file is absent (None), holds text that is no JSON, or
\* holds a JSON object whose "locations" is a list or is not.
load_config(file) ==
    IF IsNone(file) THEN [raises |-> "FileNotFoundError", value |-> << >>]
    ELSE IF Get(file).json = "invalid"
    THEN [raises |-> "JSONDecodeError", value |-> << >>]
    ELSE IF Get(file).locations.type # "list"
    THEN [raises |-> "", value |-> << >>]
    ELSE [raises |-> "", value |-> ValidConfigs(Get(file).locations.items)]

\* ------------------------------------------------------- collect_forecasts

\* The locations a configuration file lists at most.
MaxLocations == 2

ConfigEntries ==
    { ConfigEntry("IDN10064", "Sydney", "NSW"),
      ConfigEntry("IDV10450", "Melbourne", "vic"),
      ConfigEntry(" ", "Perth", "WA"),
      ConfigEntry("IDX00000", "Atlantis", "XX"),
      NotADict }

\* The lists of entries without a repeated entry.
ConfigLists ==
    { l \in SeqsUpTo(ConfigEntries, MaxLocations) :
        \A j \in 1 .. Len(l), k \in 1 .. Len(l) : j # k => l[j] # l[k] }

ConfigFiles ==
    { None, Some([json |-> "invalid"]),
      Some([json |-> "object", locations |-> [type |-> "str"]]) } \cup
    { Some([json |-> "object", locations |-> [type |-> "list", items |-> l]]) :
        l \in ConfigLists }

CityFilters == { None, Some("SYDNEY"), Some("Perth") }

\* The locations whose city name matches the filter, in list order.
FilterCity(locs, filter) ==
    SelectSeq(locs, LAMBDA loc : Lower(loc.city_name) = Lower(filter))

\* The location the loop is at.
location == locations[index]

\* The document the feed has for a location: its own identifying fields.
SourceOf(loc) == CHOOSE s \in Sources : s.product_id = loc.product_id

\* collect_forecasts up to the loop: the collection date is taken, the
\* configuration loaded and the city filter applied.  A configuration that
\* cannot be loaded, a filter that matches nothing and an empty list of
\* locations each make the function return at once.
CollectForecasts ==
    /\ op = "init"
    /\ collection_date' = today
    /\ successes' = 0
    /\ failures' = 0
    /\ index' = 0
    /\ processed' = << >>
    /\ LET loaded == load_config(config_file)
           selected == IF Truthy(city_filter)
                       THEN FilterCity(loaded.value, Get(city_filter))
                       ELSE loaded.value
       IN IF loaded.raises = "FileNotFoundError"
          THEN /\ errors' = << "Configuration file not found" >>
               /\ locations' = << >> /\ total' = 0
               /\ op' = "collect_forecasts"
          ELSE IF loaded.raises # ""
          THEN /\ errors' = << "Failed to load configuration" >>
               /\ locations' = << >> /\ total' = 0
               /\ op' = "collect_forecasts"
          ELSE IF Truthy(city_filter) /\ selected = << >>
          THEN /\ errors' = << "No location found matching city" >>
               /\ locations' = selected /\ total' = 0
               /\ op' = "collect_forecasts"
          ELSE /\ errors' = << >>
               /\ locations' = selected /\ total' = Len(selected)
               /\ op' = IF Len(selected) = 0 THEN "collect_forecasts" ELSE "loop"
    /\ UNCHANGED << existing, new_forecast, state, merged_data, archiveVars,
                    today, fileVars, current_file_before, result, runs, io_log,
                    config_file, city_filter, exit_code, fetchVars, heapVars >>

\* The prediction value the forecasts of a run carry.
RunEntry == CHOOSE e \in ArchiveEntries : TRUE

\* What the feed delivers for a location in a run: no day or one day.
RunForecasts(loc) ==
    { ParsedForecast(SourceOf(loc), days) :
        days \in {<< >>} \cup {<< ForecastDay(d, RunEntry) >> : d \in Dates} }

\* What the disk holds at a path of a location when its turn comes: no file,
\* or the file an earlier collection of day 0 has left.
DiskFiles(loc) ==
    { None,
      Some(serialize_location_data(
               merge_forecast(None,
                              ParsedForecast(SourceOf(loc),
                                             << ForecastDay(0, RunEntry) >>),
                              0, loc.state))) }

\* The loop takes the next location and calls collect_single_location for
\* it.  on_disk and in_archive are the files at the two paths of the
\* location; no other location of the list has these paths.
CallSingleLocation(on_disk, in_archive) ==
    /\ op = "loop"
    /\ index < total
    /\ op' = "collect_single_location"
    /\ index' = index + 1
    /\ processed' = Append(processed, locations[index + 1])
    /\ runs' = runs + 1
    /\ state' = locations[index + 1].state
    /\ existing' = None
    /\ new_forecast' = NoForecast
    /\ merged_data' = None
    /\ reference_date' = 0
    /\ current_data' = None
    /\ archived_data' = None
    /\ existing_archive' = None
    /\ merged_archive' = None
    /\ current_file' = on_disk
    /\ archive_file' = in_archive
    /\ current_file_before' = on_disk
    /\ result' = None
    /\ io_log' = << >>
    /\ UNCHANGED << collection_date, today, config_file, city_filter, locations,
                    resultVars, exit_code, fetchVars, heapVars >>

\* Count with the error message of a failed location not appended.
Count_unrecorded ==
    /\ op = "returned"
    /\ op' = IF index < total THEN "loop" ELSE "collect_forecasts"
    /\ IF IsNone(result)
       THEN /\ successes' = successes + 1
            /\ UNCHANGED << failures, errors >>
       ELSE /\ failures' = failures + 1
            /\ UNCHANGED << successes, errors >>
    /\ UNCHANGED << mergeVars, archiveVars, today, fileVars, current_file_before,
                    result, runs, io_log, config_file, city_filter, locations,
                    index, total, processed, exit_code, fetchVars, heapVars >>

\* The loop counts what collect_single_location returned, and goes on to the
\* next location or, after the last, to the summary and the return.
Count ==
    /\ op = "returned"
    /\ op' = IF index < total THEN "loop" ELSE "collect_forecasts"
    /\ IF IsNone(result)
       THEN /\ successes' = successes + 1
            /\ UNCHANGED << failures, errors >>
       ELSE /\ failures' = failures + 1
            /\ errors' = Append(errors, Get(result))
            /\ UNCHANGED successes
    /\ UNCHANGED << mergeVars, archiveVars, today, fileVars, current_file_before,
                    result, runs, io_log, config_file, city_filter, locations,
                    index, total, processed, exit_code, fetchVars, heapVars >>

\* -------------------------------------------------------------------- main

\* main with the test for any failure made before the test for total failure.
main_reordered(result_total, result_failures) ==
    IF result_total = 0 THEN 2
    ELSE IF result_failures > 0 THEN 1
    ELSE IF result_failures = result_total THEN 2
    ELSE 0

\* The exit code main computes from the CollectionResult.
main(result_total, result_failures) ==
    IF result_total = 0 THEN 2
    ELSE IF result_failures = result_total THEN 2
    ELSE IF result_failures > 0 THEN 1
    ELSE 0

Main ==
    /\ op = "collect_forecasts"
    /\ op' = "main"
    /\ exit_code' = Some(main(total, failures))
    /\ UNCHANGED << mergeVars, archiveVars, today, fileVars, current_file_before,
                    result, runs, io_log, config_file, city_filter, locations,
                    index, resultVars, processed, fetchVars, heapVars >>

\* A run of the command: any configuration file, any city filter.
InitRun ==
    /\ op = "init"
    /\ existing = None
    /\ new_forecast = NoForecast
    /\ collection_date = 0
    /\ state = "NSW"
    /\ merged_data = None
    /\ reference_date = 0
    /\ current_data = None
    /\ archived_data = None
    /\ existing_archive = None
    /\ merged_archive = None
    /\ today = 0
    /\ current_file = None
    /\ archive_file = None
    /\ current_file_before = None
    /\ result = None
    /\ runs = 0
    /\ io_log = << >>
    /\ config_file \in ConfigFiles
    /\ city_filter \in CityFilters
    /\ locations = << >>
    /\ index = 0
    /\ total = 0
    /\ successes = 0
    /\ failures = 0
    /\ errors = << >>
    /\ processed = << >>
    /\ exit_code = None
    /\ NoFetch
    /\ NoHeap

NextRun ==
    \/ CollectForecasts
    \/ /\ op = "loop"
       /\ \E on_disk \in DiskFiles(locations[index + 1]),
             in_archive \in DiskFiles(locations[index + 1]) :
              CallSingleLocation(on_disk, in_archive)
    \/ \E fetched \in BOOLEAN : Fetch(fetched)
    \/ /\ op = "fetch_forecast_xml"
       /\ \E parsed_forecast \in
                {None} \cup {Some(f) : f \in RunForecasts(location)} :
              Parse(parsed_forecast)
    \/ \E readable \in BOOLEAN : ReadExisting(readable)
    \/ ReadRaises
    \/ Merge
    \/ Split
    \/ \E writable \in BOOLEAN : WriteCurrent(writable)
    \/ \E readable \in BOOLEAN, writable \in BOOLEAN : WriteArchive(readable, writable)
    \/ Count
    \/ Main
    \/ Tick

SpecRun == InitRun /\ [][NextRun]_vars

\* ----------------------------------------------------------- ftp_fetcher.py

DEFAULT_MAX_RETRIES == 3
DEFAULT_INITIAL_DELAY == 1
DEFAULT_BACKOFF_MULTIPLIER == 2

\* max_retries ranges over 1 .. MaxRetries.
MaxRetries == 3

\* The loop test with the last value of range(max_retries) included.
InRange_inclusive(n, retries) == n <= retries

\* for attempt in range(max_retries): attempt n is made.
InRange(n, retries) == n < retries

\* The wait test without the "- 1": a wait after the last attempt as well.
ShouldWait_always(n, retries) == n < retries

\* if attempt < max_retries - 1: a failed attempt n is followed by a wait.
ShouldWait(n, retries) == n < retries - 1

\* How a download attempt ends: the document is read and decoded, or
\* urllib.error.URLError, socket.timeout or another Exception is raised.
AttemptOutcomes == {"ok", "URLError", "timeout", "Exception"}

\* The arguments of fetch_forecast_xml: the defaults, which are what
\* collect_single_location calls it with, and values around them.  The
\* delays are whole seconds.
RetryCounts == (1 .. MaxRetries) \cup {DEFAULT_MAX_RETRIES}
InitialDelays == {DEFAULT_INITIAL_DELAY, 3}
BackoffMultipliers == {DEFAULT_BACKOFF_MULTIPLIER, 3}

InitFetch ==
    /\ op = "init"
    /\ existing = None
    /\ new_forecast = NoForecast
    /\ collection_date = 0
    /\ state = "NSW"
    /\ merged_data = None
    /\ reference_date = 0
    /\ current_data = None
    /\ archived_data = None
    /\ existing_archive = None
    /\ merged_archive = None
    /\ today = 0
    /\ current_file = None
    /\ archive_file = None
    /\ current_file_before = None
    /\ result = None
    /\ runs = 0
    /\ io_log = << >>
    /\ NoCollection
    /\ max_retries \in RetryCounts
    /\ initial_delay \in InitialDelays
    /\ backoff_multiplier \in BackoffMultipliers
    /\ attempt = 0
    /\ current_delay = 0
    /\ attempts = << >>
    /\ sleeps = << >>
    /\ xml_content = None
    /\ NoHeap

fetchFrame == << mergeVars, archiveVars, today, fileVars, current_file_before,
                result, runs, io_log, loopVars, max_retries, initial_delay,
                backoff_multiplier, heapVars >>

\* fetch_forecast_xml is called: current_delay = initial_delay, and the loop
\* starts unless range(max_retries) is empty.
FetchForecastXml ==
    /\ op = "init"
    /\ current_delay' = initial_delay
    /\ attempt' = 0
    /\ IF InRange(0, max_retries)
       THEN op' = "urlopen"
       ELSE op' = "fetch_forecast_xml"
    /\ UNCHANGED << fetchFrame, attempts, sleeps, xml_content >>

\* One pass of the loop body.  A document read is returned at once.  An
\* exception of any of the three kinds is handled alike: unless this was the
\* last attempt the function sleeps current_delay and multiplies it; then the
\* loop goes on, or ends and None is returned.  The document is identified
\* by the number of the attempt that read it.
Attempt(outcome) ==
    /\ op = "urlopen"
    /\ attempts' = Append(attempts, outcome)
    /\ IF outcome = "ok"
       THEN /\ xml_content' = Some(attempt + 1)
            /\ op' = "fetch_forecast_xml"
            /\ UNCHANGED << attempt, current_delay, sleeps >>
       ELSE /\ IF ShouldWait(attempt, max_retries)
               THEN /\ sleeps' = Append(sleeps, current_delay)
                    /\ current_delay' = current_delay * backoff_multiplier
               ELSE UNCHANGED << sleeps, current_delay >>
            /\ IF InRange(attempt + 1, max_retries)
               THEN /\ attempt' = attempt + 1
                    /\ op' = "urlopen"
               ELSE /\ attempt' = attempt
                    /\ op' = "fetch_forecast_xml"
            /\ xml_content' = None
    /\ UNCHANGED fetchFrame

NextFetch ==
    \/ FetchForecastXml
    \/ \E outcome \in AttemptOutcomes : Attempt(outcome)

SpecFetch == InitFetch /\ [][NextFetch]_vars

\* ----------------------------------------------------------- slot helpers

HasSlot(forecasts, key, da) ==
    DictHas(forecasts, key) /\ DictHas(DictAt(forecasts, key).predictions, da)

SlotAt(forecasts, key, da) == DictAt(DictAt(forecasts, key).predictions, da)

\* The (target date, days-ahead) slots of a forecasts mapping.
SlotsOf(forecasts) ==
    UNION { {<< forecasts[i][1], forecasts[i][2].predictions[j][1] >> :
                j \in 1 .. Len(forecasts[i][2].predictions)} :
            i \in 1 .. Len(forecasts) }

\* A field value is present: not null and, for a text field, not empty.
Present(f, v) == IF f \in NumericFields THEN ~IsNone(v) ELSE Truthy(v)

Front(s) == SubSeq(s, 1, Len(s) - 1)
Last(s) == s[Len(s)]

\* ------------------------------------------------- claims on merge_forecast

MergeApplied == op \in {"merge_forecast", "remerge"}

\* The forecasts mapping merge_forecast starts from.
StartForecasts == IF IsNone(existing) THEN << >> ELSE Get(existing).forecasts

\* The mapping just before the last parsed day is folded in.
BeforeLastDay ==
    MergeDays(StartForecasts, Front(new_forecast.forecasts), collection_date)

LastDay == Last(new_forecast.forecasts)
LastKey == IsoFormat(LastDay.forecast_date)
LastDaysAhead == LastDay.forecast_date - collection_date

\* C1: field-preservation merge.  When the parsed day folded in last meets a
\* (target date, days-ahead) slot that already holds an entry, every field of
\* the entry merge_forecast returns in that slot is the parsed day's value if
\* that value is present, and the value the slot held otherwise.
C1_FieldPreservation ==
    (MergeApplied /\ new_forecast.forecasts # << >>
        /\ HasSlot(BeforeLastDay, LastKey, LastDaysAhead)) =>
    /\ HasSlot(Get(merged_data).forecasts, LastKey, LastDaysAhead)
    /\ \A f \in Fields :
          SlotAt(Get(merged_data).forecasts, LastKey, LastDaysAhead)[f] =
              IF Present(f, LastDay[f]) THEN LastDay[f]
              ELSE SlotAt(BeforeLastDay, LastKey, LastDaysAhead)[f]

\* C1 witness: the scenario of the specification.  One parsed day meets a
\* slot of the existing history that holds a forecast text and another
\* temp_max; the parsed day brings no forecast text and a temp_max.
C1_Witness ==
    /\ op = "merge_forecast"
    /\ Len(new_forecast.forecasts) = 1
    /\ ~IsNone(existing)
    /\ HasSlot(Get(existing).forecasts, LastKey, LastDaysAhead)
    /\ LET old == SlotAt(Get(existing).forecasts, LastKey, LastDaysAhead)
           now == SlotAt(Get(merged_data).forecasts, LastKey, LastDaysAhead)
       IN /\ Truthy(old.forecast) /\ IsNone(LastDay.forecast)
          /\ ~IsNone(LastDay.temp_max) /\ LastDay.temp_max # old.temp_max
          /\ now.forecast = old.forecast /\ now.temp_max = LastDay.temp_max

\* C2: merge_forecast loses no recorded prediction.  Every slot of the
\* existing history is a slot of the returned history, and a field that was
\* not null in the slot is not null in the returned slot; this holds for each
\* merge of a sequence of merges.
C2_NoPredictionLost ==
    (MergeApplied /\ ~IsNone(existing)) =>
    \A slot \in SlotsOf(Get(existing).forecasts) :
        /\ HasSlot(Get(merged_data).forecasts, slot[1], slot[2])
        /\ \A f \in Fields :
              ~IsNone(SlotAt(Get(existing).forecasts, slot[1], slot[2])[f]) =>
              ~IsNone(SlotAt(Get(merged_data).forecasts, slot[1], slot[2])[f])

\* C2 witness: a merge whose last parsed day meets a slot of the
\* existing history and brings null for a field the slot holds.
C2_Witness ==
    /\ op = "merge_forecast"
    /\ ~IsNone(existing)
    /\ new_forecast.forecasts # << >>
    /\ HasSlot(Get(existing).forecasts, LastKey, LastDaysAhead)
    /\ \E f \in Fields :
          /\ IsNone(LastDay[f])
          /\ ~IsNone(SlotAt(Get(existing).forecasts, LastKey, LastDaysAhead)[f])

\* C8: idempotence of re-merge.  Merging the same parsed forecast with the
\* same collection date into the history the first merge returned gives that
\* history again.
C8_ReMergeIdempotent ==
    op = "remerge" => merged_data = existing

\* C8 witness: a re-merge after a merge of MaxDays days into a history that
\* already held one of the slots addressed, the last day leaving a field
\* absent.
C8_Witness ==
    /\ op = "remerge"
    /\ Len(new_forecast.forecasts) = MaxDays
    /\ Cardinality(SlotsOf(Get(existing).forecasts)) > 1
    /\ Cardinality(SlotsOf(Get(existing).forecasts)) <= MaxDays
    /\ \E f \in Fields : ~Present(f, LastDay[f])

\* The parsed days are on consecutive dates starting at the collection date.
ConsecutiveFromCollectionDate ==
    \A i \in 1 .. Len(new_forecast.forecasts) :
        new_forecast.forecasts[i].forecast_date = collection_date + i - 1

C10_NegativeReached ==
    /\ op = "merge_forecast"
    /\ \E slot \in SlotsOf(Get(merged_data).forecasts) : slot[2] < 0

\* ------------------------ claims on archive_old_records, merge_archive_data

\* The forecasts mappings archive_old_records took and returned.
SplitInput == Get(merged_data).forecasts
SplitCurrent == Get(current_data).forecasts
SplitArchived == IF IsNone(archived_data) THEN << >> ELSE Get(archived_data).forecasts

\* C3: archive conservation law.  The date keys of current and archived are
\* disjoint, their union is the input's set of date keys, and every record is
\* carried over with its predictions unchanged.
C3_ArchiveConservation ==
    op = "archive_old_records" =>
    /\ KeySet(SplitCurrent) \cap KeySet(SplitArchived) = {}
    /\ KeySet(SplitCurrent) \cup KeySet(SplitArchived) = KeySet(SplitInput)
    /\ Len(SplitCurrent) + Len(SplitArchived) = Len(SplitInput)
    /\ \A key \in KeySet(SplitCurrent) :
          DictAt(SplitCurrent, key) = DictAt(SplitInput, key)
    /\ \A key \in KeySet(SplitArchived) :
          DictAt(SplitArchived, key) = DictAt(SplitInput, key)

\* C3 witness: a split that sends records both ways.
C3_Witness ==
    /\ op = "archive_old_records"
    /\ SplitCurrent # << >>
    /\ SplitArchived # << >>
    /\ Len(SplitInput) = MaxDate + 1

\* C4: split boundary.  A record is current exactly when its target date is
\* on or after the reference date and archived exactly when it is strictly
\* before; a record dated the reference date stays current.
C4_SplitBoundary ==
    op = "archive_old_records" =>
    \A i \in 1 .. Len(SplitInput) :
        LET key == SplitInput[i][1]
            date == SplitInput[i][2].forecast_date
        IN /\ DictHas(SplitCurrent, key) <=> date >= reference_date
           /\ DictHas(SplitArchived, key) <=> date < reference_date

\* C4 witness: the rollover scenario.  The history holds the day before the
\* reference date and the reference date; the first is archived and the
\* second stays current.
C4_Witness ==
    /\ op = "archive_old_records"
    /\ reference_date >= 1
    /\ DictHas(SplitInput, IsoFormat(reference_date - 1))
    /\ DictHas(SplitInput, IsoFormat(reference_date))
    /\ KeySet(SplitArchived) = {IsoFormat(reference_date - 1)}
    /\ DictHas(SplitCurrent, IsoFormat(reference_date))

\* The forecasts mappings merge_archive_data took and returned.
OldArchive == IF IsNone(existing_archive) THEN << >> ELSE Get(existing_archive).forecasts
NewArchive == Get(archived_data).forecasts
MergedArchive == Get(merged_archive).forecasts

\* C5: archive merge is cumulative.  The date keys of the result are the
\* union of both archives' date keys; for a date in both, the days-ahead keys
\* of the result's record are the union of both records' days-ahead keys;
\* with no existing archive the result is the new archive in full.
C5_ArchiveMergeCumulative ==
    op = "merge_archive_data" =>
    /\ KeySet(MergedArchive) = KeySet(OldArchive) \cup KeySet(NewArchive)
    /\ Len(MergedArchive) = Cardinality(KeySet(MergedArchive))
    /\ \A key \in KeySet(OldArchive) \cap KeySet(NewArchive) :
          KeySet(DictAt(MergedArchive, key).predictions) =
              KeySet(DictAt(OldArchive, key).predictions) \cup
              KeySet(DictAt(NewArchive, key).predictions)
    /\ IsNone(existing_archive) => Get(merged_archive) = Get(archived_data)

\* C5 witness: the existing archive holds a date of its own and shares a date
\* with the new archive under another days-ahead key.
C5_Witness ==
    /\ op = "merge_archive_data"
    /\ \E key \in KeySet(OldArchive) \cap KeySet(NewArchive) :
          /\ KeySet(DictAt(OldArchive, key).predictions) \cap
             KeySet(DictAt(NewArchive, key).predictions) = {}
          /\ Cardinality(KeySet(DictAt(MergedArchive, key).predictions)) = 2
    /\ KeySet(NewArchive) \ KeySet(OldArchive) # {}

\* The keys of a forecasts mapping, and of each of its records, ascend
\* strictly.
SortedData(forecasts) ==
    /\ \A i \in 1 .. Len(forecasts) - 1 : StrLess(forecasts[i][1], forecasts[i + 1][1])
    /\ \A i \in 1 .. Len(forecasts) :
          LET predictions == forecasts[i][2].predictions
          IN \A j \in 1 .. Len(predictions) - 1 :
                predictions[j][1] < predictions[j + 1][1]

\* C9: sort invariants.  After merge_forecast, archive_old_records and
\* merge_archive_data, the date keys of each LocationData returned and the
\* days-ahead keys of each of its records are strictly ascending.
C9_SortInvariants ==
    /\ op = "merge_forecast" => SortedData(Get(merged_data).forecasts)
    /\ op = "archive_old_records" =>
          SortedData(SplitCurrent) /\ SortedData(SplitArchived)
    /\ op = "merge_archive_data" => SortedData(MergedArchive)

\* C9 witness: an archive merge that puts an earlier date and a smaller
\* days-ahead key behind the existing ones, after a merge that did the same.
C9_Witness ==
    /\ op = "merge_archive_data"
    /\ ~IsNone(existing_archive)
    /\ \E key \in KeySet(NewArchive) : StrLess(key, OldArchive[1][1])
    /\ \E key \in KeySet(OldArchive) \cap KeySet(NewArchive) :
          DictAt(NewArchive, key).predictions[1][1] <
              DictAt(OldArchive, key).predictions[1][1]
    /\ ~IsNone(existing)
    /\ \E i \in 1 .. Len(new_forecast.forecasts) :
          StrLess(IsoFormat(new_forecast.forecasts[i].forecast_date),
                  Get(existing).forecasts[1][1])

\* -------------------------------------- claims on collect_single_location

\* The (target date, days-ahead) slots a file holds, as its keys spell them.
FileSlots(file) ==
    IF IsNone(file) THEN {}
    ELSE UNION { {<< Get(file).forecasts[i][1], Get(file).forecasts[i][2][j][1] >> :
                     j \in 1 .. Len(Get(file).forecasts[i][2])} :
                 i \in 1 .. Len(Get(file).forecasts) }

\* The target dates a file holds.
FileDates(file) == IF IsNone(file) THEN {} ELSE KeySet(Get(file).forecasts)

\* The target dates the parsed forecast of the run delivered.
ParsedDates ==
    {IsoFormat(new_forecast.forecasts[i].forecast_date) :
        i \in 1 .. Len(new_forecast.forecasts)}

\* C6: the archive file only grows.  Over every step of every sequence of
\* runs, a call of write_archive_file included, each (target date,
\* days-ahead) slot the archive file holds before the step is held by it
\* after the step, whatever the read of the file returned.
C6_ArchiveOnlyGrows ==
    [][FileSlots(archive_file) \subseteq FileSlots(archive_file')]_vars

\* C7: no record is discarded by a collection run.  When
\* collect_single_location has returned None, every target date the current
\* file held before the run, and every target date the parsed forecast
\* delivered, is held by the current file or by the archive file.
C7_NoRecordDiscarded ==
    (op = "returned" /\ runs > 0 /\ IsNone(result)) =>
        (FileDates(current_file_before) \cup ParsedDates) \subseteq
            (FileDates(current_file) \cup FileDates(archive_file))

\* ------------------------------------------- claims on collect_forecasts

\* The outcome the log of the call in progress records for an operation.
Logged(operation, outcome) ==
    \E k \in 1 .. Len(io_log) : io_log[k] = << operation, outcome >>

\* An error was raised while the location of the call was processed.
ErrorRaised ==
    \E k \in 1 .. Len(io_log) : io_log[k][2] \in {"failed", "error", "raised"}

\* The run is over: collect_forecasts has returned, or an exception has left
\* it.
RunOver == op \in {"collect_forecasts", "main", "raised"}

\* The loop has counted the location of the last call.
Counted == op \in {"loop", "collect_forecasts", "main"} /\ index > 0

\* C11: per-location failure tolerance.  The locations handed to
\* collect_single_location are the selected locations in list order, each
\* once; a location whose fetch or parse failed is counted as a failure with
\* its message; and when the run is over every selected location was handed
\* over.
C11_FailureTolerance ==
    /\ Len(processed) <= Len(locations)
    /\ processed = SubSeq(locations, 1, Len(processed))
    /\ (Counted /\ Logged("fetch", "failed")) =>
          (failures > 0 /\ Last(errors) = "Failed to fetch XML")
    /\ (Counted /\ Logged("parse", "failed")) =>
          (failures > 0 /\ Last(errors) = "Failed to parse XML")
    /\ RunOver => processed = locations

\* C12: error containment.  No exception leaves collect_single_location, and
\* a location during whose processing an error was raised, in any step, has
\* its message at the end of the error list once the loop has counted it.
C12_ErrorContainment ==
    /\ op # "raised"
    /\ (Counted /\ ErrorRaised) =>
          (errors # << >> /\ ~IsNone(result) /\ Last(errors) = Get(result))

\* C13: a failed write of the current file is fatal for the location.  The
\* call returns the write error, after fetch and parse succeeded, and the
\* loop adds one to failures and nothing to successes.
C13_CurrentWriteFatal ==
    [][(op = "returned" /\ Logged("write_current", "error")) =>
          /\ result = Some("Failed to write file")
          /\ Logged("fetch", "ok") /\ Logged("parse", "ok")
          /\ op' # "returned" =>
                /\ failures' = failures + 1
                /\ successes' = successes
                /\ errors' = Append(errors, "Failed to write file")]_vars

\* C13 witness: the loop has counted a location whose current file could not
\* be written.
C13_Witness ==
    /\ Counted
    /\ Logged("write_current", "error")
    /\ failures > 0
    /\ successes > 0

\* C14: the archive write is best-effort.  When the archive write failed
\* after the current file was written, the call returns None, and the loop
\* adds one to successes and nothing to failures or to the error list.
C14_ArchiveBestEffort ==
    [][(op = "returned" /\ Logged("write_archive", "error")) =>
          /\ IsNone(result)
          /\ Logged("write_current", "ok")
          /\ op' # "returned" =>
                /\ successes' = successes + 1
                /\ failures' = failures
                /\ errors' = errors]_vars

\* C14 witness: the loop has counted, as a success and with no error
\* message, a location whose archive write failed.
C14_Witness ==
    /\ Counted
    /\ Logged("write_archive", "error")
    /\ successes > 0
    /\ errors = << >>

\* C15: exit code mapping.  main returns 0 exactly when a location was
\* processed and none failed, 1 exactly when some but not all of the
\* processed locations failed, and 2 exactly when all of them failed or
\* none was processed.
C15_ExitCode ==
    op = "main" =>
        /\ ~IsNone(exit_code)
        /\ Get(exit_code) \in {0, 1, 2}
        /\ Get(exit_code) = 0 <=>
              (Len(processed) > 0 /\ successes = Len(processed) /\ failures = 0)
        /\ Get(exit_code) = 1 <=>
              (failures > 0 /\ failures < Len(processed))
        /\ Get(exit_code) = 2 <=> failures = Len(processed)

\* C15 witness: main has returned 2 after every location of a run of two
\* failed.
C15_Witness ==
    /\ op = "main"
    /\ exit_code = Some(2)
    /\ Len(processed) > 1
    /\ failures = Len(processed)

\* The configuration file is missing or holds no JSON.
ConfigError == IsNone(config_file) \/ Get(config_file).json = "invalid"

\* C16: a configuration error aborts the run.  With the configuration file
\* missing or unparsable no location is ever handed to
\* collect_single_location, nothing is fetched and no data file is read or
\* written, and collect_forecasts returns total, successes and failures of 0
\* with exactly one error message.
C16_ConfigErrorAborts ==
    ConfigError =>
        /\ op \in {"init", "collect_forecasts", "main"}
        /\ processed = << >>
        /\ runs = 0
        /\ io_log = << >>
        /\ current_file = None /\ archive_file = None
        /\ op \in {"collect_forecasts", "main"} =>
              /\ total = 0 /\ successes = 0 /\ failures = 0
              /\ Len(errors) = 1

\* C16 witness: collect_forecasts has returned on a file that holds no JSON.
C16_Witness ==
    /\ op = "collect_forecasts"
    /\ ~IsNone(config_file)
    /\ Get(config_file).json = "invalid"
    /\ errors = << "Failed to load configuration" >>

\* C19: run summary accounting.  At every point of the loop successes +
\* failures is the number of locations whose call has been counted and the
\* error list is as long as failures; when collect_forecasts returns after
\* the loop, successes + failures = total = the number of selected
\* locations.
C19_RunAccounting ==
    /\ index > 0 =>
          /\ successes + failures =
                IF Counted THEN Len(processed) ELSE Len(processed) - 1
          /\ Len(errors) = failures
    /\ (op = "collect_forecasts" /\ index > 0) =>
          /\ successes + failures = total
          /\ total = Len(locations)
          /\ Len(processed) = total

\* C19 witness: a run of two locations has returned with one success and one
\* failure.
C19_Witness ==
    /\ op = "collect_forecasts"
    /\ total = 2
    /\ successes = 1
    /\ failures = 1

\* ------------------------------------------ claims on fetch_forecast_xml

FetchReturned == op = "fetch_forecast_xml"

\* The attempts made so far all failed.
AllFailed == \A k \in 1 .. Len(attempts) : attempts[k] # "ok"

\* C17: bounded fetch retry.  At most max_retries attempts are made and the
\* loop is never at an attempt beyond them; a document returned is the one
\* of the first successful attempt, which is the last attempt made; and when
\* max_retries attempts failed, whatever the exceptions, None is returned.
C17_BoundedRetry ==
    /\ Len(attempts) <= max_retries
    /\ op = "urlopen" => (Len(attempts) < max_retries /\ AllFailed)
    /\ \A k \in 1 .. Len(attempts) - 1 : attempts[k] # "ok"
    /\ (FetchReturned /\ ~IsNone(xml_content)) =>
          /\ Last(attempts) = "ok"
          /\ Get(xml_content) = Len(attempts)
    /\ (FetchReturned /\ IsNone(xml_content)) =>
          (AllFailed /\ Len(attempts) = max_retries)
    /\ (FetchReturned /\ AllFailed) => IsNone(xml_content)

\* C17 witness: None returned after three failed attempts of three kinds.
C17_Witness ==
    /\ FetchReturned
    /\ max_retries = 3
    /\ attempts = << "URLError", "timeout", "Exception" >>
    /\ IsNone(xml_content)

RECURSIVE Pow(_, _)
Pow(base, n) == IF n = 0 THEN 1 ELSE base * Pow(base, n - 1)

\* C18: exponential backoff schedule.  The k-th wait lasts initial_delay *
\* backoff_multiplier^(k-1); while the loop runs there is one wait per failed
\* attempt, and on return one less than the attempts made, so that no wait
\* follows the last failed attempt or a success and a total failure has
\* waited max_retries - 1 times.
C18_BackoffSchedule ==
    /\ \A k \in 1 .. Len(sleeps) :
          sleeps[k] = initial_delay * Pow(backoff_multiplier, k - 1)
    /\ op = "urlopen" => Len(sleeps) = Len(attempts)
    /\ FetchReturned => Len(sleeps) = Len(attempts) - 1
    /\ (FetchReturned /\ IsNone(xml_content)) => Len(sleeps) = max_retries - 1

\* C18 witness: a total failure of three attempts has waited twice, the
\* second time longer than the first.
C18_Witness ==
    /\ FetchReturned
    /\ IsNone(xml_content)
    /\ max_retries = 3
    /\ Len(sleeps) = 2
    /\ sleeps[2] = initial_delay * backoff_multiplier
    /\ sleeps[2] > sleeps[1]

\* ------------------------------------------------ claims on an empty parse

\* C20: an empty parse is a no-op.  merge_forecast with a parsed forecast of
\* no day returns the existing history as it is, records, predictions and
\* identifying fields, when there is one, and a LocationData with an empty
\* forecast mapping when there is none.
C20_EmptyParseNoOp ==
    (op \in {"merge_forecast", "merge_empty"} /\ new_forecast.forecasts = << >>) =>
        IF IsNone(existing)
        THEN Get(merged_data).forecasts = << >>
        ELSE merged_data = existing

\* C20 witness: an empty parse from the other feed was merged into a history
\* of two dates, one of them holding two predictions.
C20_Witness ==
    /\ op = "merge_empty"
    /\ new_forecast.product_id # Get(existing).product_id
    /\ state # Get(existing).state
    /\ Len(Get(existing).forecasts) = 2
    /\ \E k \in 1 .. 2 : Len(Get(existing).forecasts[k][2].predictions) = 2

\* ------------------------------------- claims on duplicate target dates

\* The parsed days of target date d, in list order.
DaysOn(d) ==
    SelectSeq(new_forecast.forecasts, LAMBDA day : day.forecast_date = d)

\* The prediction entry merge_forecast makes of a parsed day.
EntryOf(day) ==
    PredictionEntry(day.icon_code, day.temp_min, day.temp_max,
                    day.precipitation_prob, day.precis, day.forecast)

\* The left-to-right fold of the field-preservation merge over parsed days,
\* from the entry the slot held before (None when it held none).
RECURSIVE FoldEntries(_, _)
FoldEntries(entry, days) ==
    IF days = << >> THEN entry
    ELSE FoldEntries(Some(merge_prediction_entry(entry, EntryOf(Head(days)))),
                     Tail(days))

\* The entry the existing history holds in the slot of target date d.
SlotBefore(d) ==
    IF HasSlot(StartForecasts, IsoFormat(d), d - collection_date)
    THEN Some(SlotAt(StartForecasts, IsoFormat(d), d - collection_date))
    ELSE None

\* C21: duplicate target dates are folded in list order.  The entry
\* merge_forecast leaves in the slot of a target date is the left-to-right
\* fold of the field-preservation merge over the parsed days of that date;
\* with two parsed days of a date and no entry held before, each field is the
\* later day's value if present and the earlier day's value otherwise.
C21_DuplicateFold ==
    op = "merge_forecast" =>
    \A d \in Dates :
        DaysOn(d) # << >> =>
        LET key == IsoFormat(d)
            da == d - collection_date
            out == Get(merged_data).forecasts
        IN /\ HasSlot(out, key, da)
           /\ SlotAt(out, key, da) = Get(FoldEntries(SlotBefore(d), DaysOn(d)))
           /\ (IsNone(SlotBefore(d)) /\ Len(DaysOn(d)) = 2) =>
                 \A f \in Fields :
                     SlotAt(out, key, da)[f] =
                         IF Present(f, DaysOn(d)[2][f]) THEN DaysOn(d)[2][f]
                         ELSE DaysOn(d)[1][f]

\* C21 witness: two parsed days of one date merged into no history; the
\* later day leaves a field absent that the earlier day holds, and brings
\* another value for a field both hold.
C21_Witness ==
    /\ op = "merge_forecast"
    /\ IsNone(existing)
    /\ \E d \in Dates :
          /\ Len(DaysOn(d)) = 2
          /\ \E f \in Fields :
                /\ ~Present(f, DaysOn(d)[2][f]) /\ Present(f, DaysOn(d)[1][f])
                /\ SlotAt(Get(merged_data).forecasts, IsoFormat(d),
                          d - collection_date)[f] = DaysOn(d)[1][f]
          /\ \E f \in Fields :
                /\ Present(f, DaysOn(d)[2][f]) /\ Present(f, DaysOn(d)[1][f])
                /\ DaysOn(d)[2][f] # DaysOn(d)[1][f]
                /\ SlotAt(Get(merged_data).forecasts, IsoFormat(d),
                          d - collection_date)[f] = DaysOn(d)[2][f]

\* ------------------------------------------ claims on the archive merge

FileSlotAt(file, slot) == DictAt(DictAt(Get(file).forecasts, slot[1]), slot[2])

\* C23: archive slots are write-once.  Over every step of every sequence of
\* runs, with run dates that never decrease, a (target date, days-ahead)
\* slot the archive file holds before the step and after it holds the same
\* entry after the step as before.
C23_ArchiveWriteOnce ==
    [][\A slot \in FileSlots(archive_file) \cap FileSlots(archive_file') :
          FileSlotAt(archive_file', slot) = FileSlotAt(archive_file, slot)]_vars

\* --------------------------------------- claims on the presence of a field

\* The mapping after the first n parsed days were folded in.
AfterDays(n) ==
    MergeDays(StartForecasts, SubSeq(new_forecast.forecasts, 1, n), collection_date)

\* The presence rule at every parsed day of a list folded into a forecasts
\* mapping, and the agreement of the end of the fold with the history
\* merge_forecast returned.
RECURSIVE PresenceHolds(_, _)
PresenceHolds(forecasts, days) ==
    IF days = << >> THEN SortForecasts(forecasts) = Get(merged_data).forecasts
    ELSE LET day == Head(days)
             key == IsoFormat(day.forecast_date)
             da == day.forecast_date - collection_date
         IN \A after \in {MergeDay(forecasts, day, collection_date)} :
               /\ HasSlot(forecasts, key, da) =>
                     \A old \in {SlotAt(forecasts, key, da)},
                        now \in {SlotAt(after, key, da)} :
                        /\ \A f \in NumericFields :
                              /\ day[f] = None => now[f] = old[f]
                              /\ day[f] # None => now[f] = day[f]
                        /\ \A f \in TextFields :
                              /\ day[f] \in {None, Some("")} => now[f] = old[f]
                              /\ day[f] \notin {None, Some("")} => now[f] = day[f]
               /\ PresenceHolds(after, Tail(days))

\* C24: presence per field kind.  Whenever a parsed day meets a slot that
\* holds an entry, a numeric field (icon_code, temp_min, temp_max) of the
\* entry stored is the parsed value unless that is null, a value of 0
\* included; a text field (precipitation_prob, precis, forecast) is the
\* value held before when the parsed value is null or the empty string, and
\* the parsed value otherwise, "0%" included.
C24_PresencePerKind ==
    op = "merge_forecast" => PresenceHolds(StartForecasts, new_forecast.forecasts)

\* C24 witness: a slot was met twice.  A parsed "0%" replaced another
\* probability; then a parsed temperature of 0 replaced another temperature
\* while an empty precis kept the precis held.
C24_Witness ==
    /\ op = "merge_forecast"
    /\ Len(new_forecast.forecasts) = 2
    /\ LET day1 == new_forecast.forecasts[1]
           day2 == new_forecast.forecasts[2]
           key == IsoFormat(day1.forecast_date)
           da == day1.forecast_date - collection_date
       IN /\ day1.forecast_date = day2.forecast_date
          /\ HasSlot(StartForecasts, key, da)
          /\ day1.precipitation_prob = Some("0%")
          /\ Truthy(SlotAt(StartForecasts, key, da).precipitation_prob)
          /\ SlotAt(StartForecasts, key, da).precipitation_prob # Some("0%")
          /\ SlotAt(AfterDays(1), key, da).precipitation_prob = Some("0%")
          /\ day2.temp_min = Some(0)
          /\ day2.precis = Some("")
          /\ LET now == SlotAt(Get(merged_data).forecasts, key, da)
             IN /\ now.temp_min = Some(0)
                /\ SlotAt(AfterDays(1), key, da).temp_min = Some(12)
                /\ now.precis = Some("Rain")

\* ------------------------------------------- claims on the date of a run

\* The date keys of the merged records dated on or after the collection date.
MergedFrom(d) ==
    {Get(merged_data).forecasts[i][1] : i \in
        {j \in 1 .. Len(Get(merged_data).forecasts) :
            Get(merged_data).forecasts[j][2].forecast_date >= d}}

\* C25: one date per location run.  The reference date of the split of a
\* call of collect_single_location is the collection date of its merge, and
\* once the call has written the current file, the file holds exactly the
\* merged records dated on or after the collection date.
C25_OneDatePerRun ==
    /\ (runs > 0 /\ op = "archive_old_records") => reference_date = collection_date
    /\ (runs > 0 /\ Logged("write_current", "ok")) =>
          FileDates(current_file) = MergedFrom(collection_date)

\* ------------------------------------- claims on a failed fetch or parse

\* C26: state unchanged on fetch or parse failure.  When fetch_forecast_xml
\* or parse_forecast_xml returns None, collect_single_location returns its
\* error message at once; the call has read and written no file, and the
\* current file and the archive file of the location are as they were.
C26_FailureLeavesFiles ==
    [][(op \in {"collect_single_location", "fetch_forecast_xml"}
            /\ Last(io_log')[2] = "failed") =>
          /\ op' = "returned"
          /\ result' = IF Last(io_log')[1] = "fetch"
                       THEN Some("Failed to fetch XML")
                       ELSE Some("Failed to parse XML")
          /\ \A k \in 1 .. Len(io_log') : io_log'[k][1] \in {"fetch", "parse"}
          /\ current_file' = current_file
          /\ archive_file' = archive_file
          /\ current_file' = current_file_before']_vars

\* C26 witness: a call has returned the parse error for a location that has
\* a current file and an archive file on disk.
C26_Witness ==
    /\ op = "returned"
    /\ Logged("parse", "failed")
    /\ result = Some("Failed to parse XML")
    /\ ~IsNone(current_file)
    /\ ~IsNone(archive_file)
    /\ current_file = current_file_before

\* --------------------------------------- claims on the order of the writes

\* The log of the call holds a read or a write of the archive file.
ArchiveTouched ==
    \E k \in 1 .. Len(io_log) : io_log[k][1] \in {"read_archive", "write_archive"}

\* C27: write ordering.  Within the processing of a location every read and
\* write of the archive file comes after a successful write of the current
\* file and only when the split has archived at least one record; after a
\* failed write of the current file the call has returned and the archive
\* file is neither read nor written; and no step of a call changes the
\* archive file before the current file was written.
C27_WriteOrdering ==
    /\ [](/\ \A k \in 1 .. Len(io_log) :
               (io_log[k][1] \in {"read_archive", "write_archive"}) =>
                   (/\ \E j \in 1 .. k - 1 : io_log[j] = << "write_current", "ok" >>
                    /\ ~IsNone(archived_data)
                    /\ Get(archived_data).forecasts # << >>)
           /\ (Logged("write_current", "error") =>
                   (/\ ~ArchiveTouched
                    /\ op \notin {"archive_old_records", "write_location_file"}))
           /\ (op = "write_location_file" =>
                   (/\ Logged("write_current", "ok")
                    /\ ~IsNone(archived_data))))
    /\ [][(op # "loop" /\ archive_file' # archive_file) =>
              (Logged("write_current", "ok") /\ ~Logged("write_current", "error"))]_vars

\* C27 witness: the current file of a location could not be written; the
\* split had archived a record, and the call returned without a read or a
\* write of the archive file.
C27_Witness ==
    /\ op = "returned"
    /\ Logged("write_current", "error")
    /\ ~IsNone(archived_data)
    /\ ~ArchiveTouched
    /\ ~IsNone(archive_file)

\* An archive write after a successful write of the current file.
C27_ArchiveAfterCurrent ==
    /\ op = "returned"
    /\ Len(io_log) = 6
    /\ io_log[4] = << "write_current", "ok" >>
    /\ io_log[6] = << "write_archive", "ok" >>

\* ------------------------------------------------ claims on the objects

\* The forecasts of the archived data, none when nothing was archived.
ArchivedRefs(h) == IF IsNone(h.archived) THEN << >> ELSE Get(h.archived)

\* The forecasts of the LocationData merge_archive_data returned.
ReturnedRefs(h) ==
    IF h.returned = Some("new_archive") THEN Get(h.archived) ELSE Get(h.existing)

\* The objects agree with the values: the dicts of the split and of the
\* archive merge, with the records in the place of the references, are what
\* archive_old_records and merge_archive_data give on values.
ObjectsAgreeWithValues ==
    /\ op = "archive_old_records" =>
          LET data == LocationData("", "", "", "",
                                   Deref(heap_before, heap_before.data))
          IN /\ Deref(heap, heap.data) =
                    archive_old_records(data, reference_date).current.forecasts
             /\ IsNone(heap.archived) =
                    IsNone(archive_old_records(data, reference_date).archived)
    /\ (op = "merge_archive_data" /\ ~IsNone(heap.returned)) =>
          LET new == LocationData("", "", "", "",
                                  Deref(heap_before, Get(heap_before.archived)))
          IN Deref(heap, ReturnedRefs(heap)) =
                 merge_archive_data(existing_archive, new).forecasts

\* C28: no aliasing across split and archive merge.  The current and the
\* archived data the split returns refer to no common record object; and
\* after merge_archive_data the forecasts dict of the current data and that
\* of the new archive are as they were at the call, and so is every record
\* object either of them refers to.
C28_NoAliasing ==
    /\ Ids(heap.data) \cap Ids(ArchivedRefs(heap)) = {}
    /\ (op = "merge_archive_data" /\ ~IsNone(heap.returned)) =>
          /\ heap.data = heap_before.data
          /\ heap.archived = heap_before.archived
          /\ \A id \in Ids(heap.data) \cup Ids(ArchivedRefs(heap)) :
                heap.records[id] = heap_before.records[id]
          /\ Deref(heap, heap.data) = Deref(heap_before, heap_before.data)

\* C28 witness: the split has left a current record and archived another;
\* the existing archive held the archived date, and merge_archive_data
\* updated its record object in place.
C28_Witness ==
    /\ op = "merge_archive_data"
    /\ heap.returned = Some("existing_archive")
    /\ heap.data # << >>
    /\ \E id \in Ids(Get(heap.existing)) \ Ids(Get(heap.archived)) :
          heap.records[id] # heap_before.records[id]

\* ------------------------------------------- claims on the merge frame

\* The (target date, days-ahead) slots the parsed days address.
Addressed ==
    {<< IsoFormat(new_forecast.forecasts[i].forecast_date),
        new_forecast.forecasts[i].forecast_date - collection_date >> :
        i \in 1 .. Len(new_forecast.forecasts)}

\* C29: merge frame.  merge_forecast on an existing history changes only the
\* slots the parsed days address: the slots of the result are those of the
\* history and the addressed ones, every other slot holds the entry it
\* held, every record keeps its date, and product_id, city_name, state and
\* timezone are those of the history whatever the parsed forecast and the
\* state argument carry.
C29_MergeFrame ==
    (op = "merge_forecast" /\ ~IsNone(existing)) =>
    LET old == Get(existing)
        out == Get(merged_data)
    IN /\ SlotsOf(out.forecasts) = SlotsOf(old.forecasts) \cup Addressed
       /\ \A slot \in SlotsOf(old.forecasts) \ Addressed :
             SlotAt(out.forecasts, slot[1], slot[2]) =
                 SlotAt(old.forecasts, slot[1], slot[2])
       /\ \A key \in KeySet(old.forecasts) :
             DictAt(out.forecasts, key).forecast_date =
                 DictAt(old.forecasts, key).forecast_date
       /\ out.product_id = old.product_id
       /\ out.city_name = old.city_name
       /\ out.state = old.state
       /\ out.timezone = old.timezone

\* C29 witness: a parsed forecast of another product, city, timezone and
\* state has addressed another days-ahead key of the date the history
\* holds, and a slot of another date.
C29_Witness ==
    /\ op = "merge_forecast"
    /\ ~IsNone(existing)
    /\ new_forecast.product_id # Get(existing).product_id
    /\ new_forecast.city_name # Get(existing).city_name
    /\ new_forecast.timezone # Get(existing).timezone
    /\ state # Get(existing).state
    /\ SlotsOf(Get(existing).forecasts) \cap Addressed = {}
    /\ \E slot \in SlotsOf(Get(existing).forecasts), a \in Addressed :
          a[1] = slot[1]
    /\ \E a \in Addressed : ~DictHas(Get(existing).forecasts, a[1])

\* ------------------------------- claims on the two files of a location

\* A run has ended: collect_single_location has returned or was left by an
\* exception.
RunEnded == runs > 0 /\ op \in {"returned", "raised"}

\* C30: current and archive stay disjoint.  After every run of a sequence of
\* runs with run dates that never decrease, no target date is held by both
\* the current file and the archive file, and every date of the archive
\* file is strictly before the collection date of the latest run.
C30_CurrentArchiveDisjoint ==
    RunEnded =>
        /\ FileDates(current_file) \cap FileDates(archive_file) = {}
        /\ \A key \in FileDates(archive_file) :
              FromIsoFormat(key) < collection_date

\* The first half of C30 alone.
C30_Disjoint ==
    FileDates(current_file) \cap FileDates(archive_file) = {}

====
